---- MODULE Spec2Model ----
(***************************************************************************)
(* The detached background-job supervisor of code-intel                    *)
(* (scripts/jobs.py, scripts/guard.py, the generated watcher script).      *)
(*                                                                         *)
(* The durable store is the two sqlite tables jobs and notifications (and  *)
(* the audit_log table of guard.py).  Every CLI invocation is a client     *)
(* process with its own connection; a statement sequence that ends in one  *)
(* commit is one atomic step (sqlite makes it visible at the commit and    *)
(* serialises writers), a SELECT followed later by a write transaction is  *)
(* two steps with the rows read kept in the client's locals.               *)
(*                                                                         *)
(* Encodings: a NULL integer column is 0 (pid, output_file) or NoCode      *)
(* (exit_code); a NULL text column is the empty option <<>> and a value t  *)
(* is <<t>>; a timestamp is "ts" (now_iso() is never compared anywhere),   *)
(* NULL is "NULL".  Text is a sequence of one-character strings.           *)
(***************************************************************************)
EXTENDS Integers, Sequences, FiniteSets, TLC

\* ---- bounds of the model ----
MaxJobs == 1        \* submissions per behaviour of Spec (one job, every race on it)
MaxPairJobs == 2    \* submissions per behaviour of the two-job specifications
MaxCleanJobs == 6   \* rows of the jobs table a clean_jobs scenario starts from
NumClients == 2     \* concurrent CLI invocations
MaxPid == 2         \* size of the OS pid space
MaxQuota == 2       \* largest configured max_concurrent_jobs
MaxAudit == 2       \* audit_log rows per behaviour
MaxKeep == 2        \* largest keep argument of clean_jobs
MaxLimit == 2       \* largest limit argument of list_jobs
MaxRerun == 1       \* re-executions of a watcher script per job

\* ---- program constants ----
ErrLimit == 500       \* err_text[:500]
DefaultMaxConcurrent == 5   \* DEFAULT_CONFIG["max_concurrent_jobs"]
PreviewLines == 5     \* lines[-5:]
PreviewLimit == 300   \* [:300]

Clients == 1..NumClients
Pids == 1..MaxPid
NoCode == -1

Min(a, b) == IF a < b THEN a ELSE b
Max(a, b) == IF a > b THEN a ELSE b

\* every job id a behaviour can hold
AllIds == 1..Max(Max(MaxJobs, MaxPairJobs), MaxCleanJobs)

\* ---- text ----

\* s[:n] of Python
Take(s, n) == SubSeq(s, 1, Min(n, Len(s)))
\* s[-n:] of Python, n > 0
LastN(s, n) == SubSeq(s, Max(1, Len(s) - n + 1), Len(s))

IsSpace(ch) == ch \in {" ", "\n"}

RECURSIVE LStrip(_)
LStrip(s) == IF s # <<>> /\ IsSpace(Head(s)) THEN LStrip(Tail(s)) ELSE s

RECURSIVE RStrip(_)
RStrip(s) ==
    IF s # <<>> /\ IsSpace(s[Len(s)]) THEN RStrip(SubSeq(s, 1, Len(s) - 1)) ELSE s

\* str.strip()
Strip(s) == RStrip(LStrip(s))

RECURSIVE Join(_)
\* "".join(lines)
Join(lines) == IF lines = <<>> THEN <<>> ELSE Head(lines) \o Join(Tail(lines))

Rep(ch, n) == [i \in 1..n |-> ch]

NoOutput == <<"(no output)">>
CouldNotRead == <<"(could not read output)">>

\* the watcher's preview of the output artifact; outf is the option of the
\* file's lines (<<>> when the file cannot be opened)
Preview(outf) ==
    IF outf = <<>> THEN CouldNotRead
    ELSE IF outf[1] = <<>> THEN NoOutput
    ELSE Take(Join(LastN(outf[1], PreviewLines)), PreviewLimit)

\* the watcher's err_text; errf is the option of the error artifact's text
ErrText(errf) == IF errf = <<>> THEN <<>> ELSE Strip(errf[1])

ExitCode(err_text) == IF err_text # <<>> THEN 1 ELSE 0
StatusWord(err_text) ==
    IF err_text # <<>> THEN "finished with warnings" ELSE "finished"


\* ---- inputs ----
\* A command is modelled by what the guard's rules make of it: "ok" passes,
\* "blocked" matches a blocked command or pattern, "badpath" names a path
\* outside the allowlist.
Commands == {"ok", "blocked", "badpath"}

\* what a launched process leaves in its two artifacts
ShortOutputs ==
    { [out |-> <<>>, err |-> <<>>],
      [out |-> << <<"o", "\n">> >>, err |-> <<"e">>] }

VARIABLES
    config,         \* safety.json: [max_concurrent_jobs]
    jobs,           \* table jobs: id -> row, DOMAIN = the ids that have a row
    jobseq,         \* sqlite_sequence of jobs (AUTOINCREMENT)
    notifications,  \* table notifications: id -> row
    notifseq,       \* sqlite_sequence of notifications
    audit,          \* table audit_log, in insertion order
    procs,          \* OS process table: pid -> [owner, pgid], owner 0 = no process
    files,          \* artifacts directory: job id -> [out, err, script]
    watcher,        \* the watcher process of each job
    client,         \* the CLI invocations
    signals         \* SIGTERMs delivered by cancel_job

vars == <<config, jobs, jobseq, notifications, notifseq, audit, procs, files,
          watcher, client, signals>>

Terminal == {"done", "failed", "cancelled"}

NoOut == [kind |-> "", status |-> "", n |-> 0, m |-> 0, ids |-> <<>>]
IdleClient == [pc |-> "idle", cmd |-> "", job |-> 0, pid |-> 0, keep |-> 0,
               rows |-> <<>>, ids |-> <<>>, out |-> NoOut]
NoWatcher == [pc |-> "none", pid |-> 0, preview |-> <<>>, err_text |-> <<>>,
              runs |-> 0]
NoFiles == [out |-> <<>>, err |-> <<>>, script |-> 0]
NoProc == [owner |-> 0, pgid |-> 0]

\* CREATE TABLE IF NOT EXISTS on an empty directory, safety.json as
\* load_config first writes it
Init ==
    /\ config = [max_concurrent_jobs |-> DefaultMaxConcurrent]
    /\ jobs = << >>
    /\ jobseq = 0
    /\ notifications = << >>
    /\ notifseq = 0
    /\ audit = << >>
    /\ procs = [p \in Pids |-> NoProc]
    /\ files = [j \in AllIds |-> NoFiles]
    /\ watcher = [j \in AllIds |-> NoWatcher]
    /\ client = [c \in Clients |-> IdleClient]
    /\ signals = {}

\* ---- the store ----
HasRow(j) == j \in DOMAIN jobs
InsertRow(tbl, k, row) == [i \in DOMAIN tbl \cup {k} |-> IF i = k THEN row ELSE tbl[i]]
DeleteRows(tbl, D) == [i \in DOMAIN tbl \ D |-> tbl[i]]
\* UPDATE ... WHERE id = k: no row, no effect
UpdateRow(tbl, k, upd(_)) == [i \in DOMAIN tbl |-> IF i = k THEN upd(tbl[i]) ELSE tbl[i]]

\* SELECT COUNT(*) FROM jobs WHERE status='running'
RunningCount == Cardinality({j \in DOMAIN jobs : jobs[j].status = "running"})

RECURSIVE SortAsc(_)
\* the elements of a finite set of integers, ascending
SortAsc(S) ==
    IF S = {} THEN <<>>
    ELSE LET m == CHOOSE x \in S : \A y \in S : x <= y
         IN <<m>> \o SortAsc(S \ {m})

RECURSIVE SortDesc(_)
\* ORDER BY id DESC
SortDesc(S) ==
    IF S = {} THEN <<>>
    ELSE LET m == CHOOSE x \in S : \A y \in S : x >= y
         IN <<m>> \o SortDesc(S \ {m})

\* LIMIT -1 OFFSET n
Offset(s, n) == SubSeq(s, n + 1, Len(s))

\* the part of a row a reader keeps
Snapshot(j) == [id |-> j, status |-> jobs[j].status, pid |-> jobs[j].pid,
                output_file |-> jobs[j].output_file]

\* ---- the operating system ----
\* os.kill(pid, 0) succeeds
Alive(p) == p \in Pids /\ procs[p].owner # 0
\* a pid the OS may hand out: no process and no process group carries it
FreePid(p) == procs[p].owner = 0 /\ \A q \in Pids : procs[q].pgid # p
\* os.killpg(g, SIGTERM): every member of the group terminates
Group(g) == {q \in Pids : procs[q].owner # 0 /\ procs[q].pgid = g}


\* ---- guard.py ----
IsCommandSafe(cmd) == cmd # "blocked"
\* every path the command references passes is_path_allowed
PathsAllowed(cmd) == cmd # "badpath"

NoReason == [kind |-> "", running |-> 0, max |-> 0]

\* guard_job's decision, in the order of its checks
GuardDecision(cmd) ==
    IF ~IsCommandSafe(cmd)
    THEN [allowed |-> FALSE, reason |-> [NoReason EXCEPT !.kind = "command"]]
    ELSE IF ~PathsAllowed(cmd)
    THEN [allowed |-> FALSE, reason |-> [NoReason EXCEPT !.kind = "path"]]
    ELSE IF RunningCount >= config.max_concurrent_jobs
    THEN [allowed |-> FALSE,
          reason |-> [kind |-> "quota", running |-> RunningCount,
                      max |-> config.max_concurrent_jobs]]
    ELSE [allowed |-> TRUE, reason |-> [NoReason EXCEPT !.kind = "approved"]]

\* mutant of AuditRecord: every record is written as allowed
AuditRecordAllowed(cmd, d) ==
    [command |-> cmd, result |-> "allowed",
     reason |-> IF d.allowed THEN NoReason ELSE d.reason]

\* log_audit(action="job_submit", command, result, reason)
AuditRecord(cmd, d) ==
    [command |-> cmd,
     result |-> IF d.allowed THEN "allowed" ELSE "blocked",
     reason |-> IF d.allowed THEN NoReason ELSE d.reason]

\* guard_job(command): one audit record on every return path
GuardJob(c, cmd) ==
    /\ client[c].pc = "idle"
    /\ Len(audit) < MaxAudit
    /\ LET d == GuardDecision(cmd) IN
        /\ audit' = Append(audit, AuditRecord(cmd, d))
        /\ client' = [client EXCEPT ![c] =
              IF d.allowed
              THEN [IdleClient EXCEPT !.pc = "approved", !.cmd = cmd,
                                      !.out = [NoOut EXCEPT !.kind = "approved"]]
              ELSE [IdleClient EXCEPT
                      !.out = [NoOut EXCEPT !.kind = "denied",
                                            !.status = d.reason.kind,
                                            !.n = d.reason.running,
                                            !.m = d.reason.max]]]
    /\ UNCHANGED <<config, jobs, jobseq, notifications, notifseq, procs, files,
                   watcher, signals>>

\* ---- jobs.py: submit ----
\* mutant of LastRowId: INTEGER PRIMARY KEY without AUTOINCREMENT, one more
\* than the largest id the table holds now
LastRowIdOfTable ==
    IF DOMAIN jobs = {} THEN 1
    ELSE (CHOOSE j \in DOMAIN jobs : \A k \in DOMAIN jobs : j >= k) + 1

\* cursor.lastrowid of the INSERT: id INTEGER PRIMARY KEY AUTOINCREMENT takes
\* one more than the largest id the table ever held (sqlite_sequence)
LastRowId == jobseq + 1

NewRow(cmd, j, p) ==
    [command |-> cmd, status |-> "running", pid |-> p, finished_at |-> "NULL",
     exit_code |-> NoCode, output_file |-> j, error |-> <<>>]

\* submit_job up to its commit: INSERT, open the artifacts, Popen in a new
\* session, UPDATE pid and output_file, commit.  o is what the process will
\* have written when it is gone.
SubmitLaunch(c, cmd, o) ==
    /\ \E p \in Pids :
        /\ FreePid(p)
        /\ LET j == LastRowId IN
            /\ jobs' = InsertRow(jobs, j, NewRow(cmd, j, p))
            /\ jobseq' = j
            /\ procs' = [procs EXCEPT ![p] = [owner |-> j, pgid |-> p]]
            /\ files' = [files EXCEPT ![j].out = <<o.out>>, ![j].err = <<o.err>>]
            /\ client' = [client EXCEPT ![c] =
                  [IdleClient EXCEPT !.pc = "spawn", !.cmd = cmd, !.job = j,
                                     !.pid = p]]
    /\ UNCHANGED <<config, notifications, notifseq, audit, watcher, signals>>

\* main(): jobs.py submit calls submit_job, nothing before it
SubmitDirect(c, cmd, O) ==
    /\ client[c].pc = "idle"
    /\ \E o \in O : SubmitLaunch(c, cmd, o)

\* a caller that asked guard_job first and was approved
SubmitApproved(c, O) ==
    /\ client[c].pc = "approved"
    /\ \E o \in O : SubmitLaunch(c, client[c].cmd, o)

\* submit_job when Popen raises: the artifacts were opened for writing, the
\* connection dies with its transaction uncommitted
SubmitLaunchFails(c) ==
    /\ client[c].pc \in {"idle", "approved"}
    /\ LastRowId \in AllIds
    /\ files' = [files EXCEPT ![LastRowId].out = << <<>> >>,
                              ![LastRowId].err = << <<>> >>]
    /\ client' = [client EXCEPT ![c] =
          [IdleClient EXCEPT !.out = [NoOut EXCEPT !.kind = "launch_failed"]]]
    /\ UNCHANGED <<config, jobs, jobseq, notifications, notifseq, audit, procs,
                   watcher, signals>>

\* submit_job after its commit: write watcher_<id>.py and start it detached
SubmitSpawnWatcher(c) ==
    /\ client[c].pc = "spawn"
    /\ LET j == client[c].job IN
        /\ files' = [files EXCEPT ![j].script = client[c].pid]
        /\ watcher' = [watcher EXCEPT ![j] =
              [NoWatcher EXCEPT !.pc = "poll", !.pid = client[c].pid]]
        /\ client' = [client EXCEPT ![c] =
              [IdleClient EXCEPT !.out = [NoOut EXCEPT !.kind = "submitted", !.n = j]]]
    /\ UNCHANGED <<config, jobs, jobseq, notifications, notifseq, audit, procs,
                   signals>>


\* ---- the launched processes ----
\* a process of a job forks a child; the child stays in the job's process group
ProcFork(p) ==
    /\ Alive(p)
    /\ \E q \in Pids :
        /\ FreePid(q)
        /\ procs' = [procs EXCEPT ![q] = [owner |-> procs[p].owner,
                                           pgid |-> procs[p].pgid]]
    /\ UNCHANGED <<config, jobs, jobseq, notifications, notifseq, audit, files,
                   watcher, client, signals>>

\* a process ends by itself
ProcExit(p) ==
    /\ Alive(p)
    /\ procs' = [procs EXCEPT ![p] = NoProc]
    /\ UNCHANGED <<config, jobs, jobseq, notifications, notifseq, audit, files,
                   watcher, client, signals>>

\* ---- the watcher script ----
\* the poll loop leaves on the first os.kill(PID, 0) that raises
WatcherPoll(j) ==
    /\ watcher[j].pc = "poll"
    /\ ~Alive(watcher[j].pid)
    /\ watcher' = [watcher EXCEPT ![j].pc = "grace"]
    /\ UNCHANGED <<config, jobs, jobseq, notifications, notifseq, audit, procs,
                   files, client, signals>>

\* after the grace sleep: read the two artifacts
WatcherRead(j) ==
    /\ watcher[j].pc = "grace"
    /\ watcher' = [watcher EXCEPT ![j].pc = "finalize",
                                  ![j].preview = Preview(files[j].out),
                                  ![j].err_text = ErrText(files[j].err)]
    /\ UNCHANGED <<config, jobs, jobseq, notifications, notifseq, audit, procs,
                   files, client, signals>>

\* mutant of FinalizeRow: the whole err_text is stored, not err_text[:500]
FinalizeRowUncut(row, err_text) ==
    [row EXCEPT !.status = "done", !.finished_at = "ts",
                !.exit_code = ExitCode(err_text),
                !.error = IF err_text # <<>> THEN <<err_text>> ELSE @]

\* mutant of FinalizeRow: the UPDATE does not set exit_code
FinalizeRowNoCode(row, err_text) ==
    [row EXCEPT !.status = "done", !.finished_at = "ts",
                !.error = IF err_text # <<>> THEN <<Take(err_text, ErrLimit)>> ELSE @]

\* mutant of FinalizeRow: a job with error text is marked 'failed'
FinalizeRowFailed(row, err_text) ==
    [row EXCEPT !.status = IF err_text # <<>> THEN "failed" ELSE "done",
                !.finished_at = "ts",
                !.exit_code = ExitCode(err_text),
                !.error = IF err_text # <<>> THEN <<Take(err_text, ErrLimit)>> ELSE @]

\* UPDATE jobs SET status='done', finished_at=?, exit_code=? WHERE id=?
\* and, if err_text, UPDATE jobs SET error=? WHERE id=?
FinalizeRow(row, err_text) ==
    [row EXCEPT !.status = "done", !.finished_at = "ts",
                !.exit_code = ExitCode(err_text),
                !.error = IF err_text # <<>> THEN <<Take(err_text, ErrLimit)>> ELSE @]

\* INSERT INTO notifications (job_id, message, created_at)
NewNotification(j, err_text, preview) ==
    [job_id |-> j, word |-> StatusWord(err_text), preview |-> preview, delivered |-> 0]

\* mutant of WatcherFinalize: the notification is committed without the
\* UPDATE of the job row
WatcherFinalizeNotifyOnly(j) ==
    /\ watcher[j].pc = "finalize"
    /\ notifseq' = notifseq + 1
    /\ notifications' = InsertRow(notifications, notifseq + 1,
          NewNotification(j, watcher[j].err_text, watcher[j].preview))
    /\ watcher' = [watcher EXCEPT ![j].pc = "done", ![j].preview = <<>>,
                                  ![j].err_text = <<>>]
    /\ UNCHANGED <<config, jobs, jobseq, audit, procs, files, client, signals>>

\* the watcher's one transaction
WatcherFinalize(j) ==
    /\ watcher[j].pc = "finalize"
    /\ LET upd(row) == FinalizeRow(row, watcher[j].err_text) IN
        jobs' = UpdateRow(jobs, j, upd)
    /\ notifseq' = notifseq + 1
    /\ notifications' = InsertRow(notifications, notifseq + 1,
          NewNotification(j, watcher[j].err_text, watcher[j].preview))
    /\ watcher' = [watcher EXCEPT ![j].pc = "done", ![j].preview = <<>>,
                                  ![j].err_text = <<>>]
    /\ UNCHANGED <<config, jobseq, audit, procs, files, client, signals>>

\* the watcher process is killed before it has finalized
WatcherKill(j) ==
    /\ watcher[j].pc \in {"poll", "grace", "finalize"}
    /\ watcher' = [watcher EXCEPT ![j].pc = "dead", ![j].preview = <<>>,
                                  ![j].err_text = <<>>]
    /\ UNCHANGED <<config, jobs, jobseq, notifications, notifseq, audit, procs,
                   files, client, signals>>

\* somebody runs watcher_<id>.py again; PID is the one written in the script
WatcherRerun(j) ==
    /\ watcher[j].pc \in {"done", "dead"}
    /\ files[j].script # 0
    /\ watcher[j].runs < MaxRerun
    /\ watcher' = [watcher EXCEPT ![j].pc = "poll", ![j].pid = files[j].script,
                                  ![j].runs = @ + 1]
    /\ UNCHANGED <<config, jobs, jobseq, notifications, notifseq, audit, procs,
                   files, client, signals>>

\* mutant of NoProbe: the 'or not job[pid]' of the early return is missing
NoProbeStatusOnly(snap) == snap.status # "running"

\* ---- jobs.py: status, result, list ----
\* check_and_update_status returns at once for these rows
NoProbe(snap) == snap.status # "running" \/ snap.pid = 0

\* mutant of ReconcileRow: the lazily corrected row is marked 'failed'
ReconcileRowFailed(row) == [row EXCEPT !.status = "failed", !.finished_at = "ts"]

\* mutant of ReconcileRow: the UPDATE also resets exit_code and error
ReconcileRowResets(row) ==
    [row EXCEPT !.status = "done", !.finished_at = "ts", !.exit_code = NoCode,
                !.error = <<>>]

\* UPDATE jobs SET status='done', finished_at=? WHERE id=?
ReconcileRow(row) == [row EXCEPT !.status = "done", !.finished_at = "ts"]

\* get_job_status / get_job_result: the SELECT, and the whole call when
\* check_and_update_status has nothing to probe
ReadJob(c, j) ==
    /\ client[c].pc = "idle"
    /\ client' = [client EXCEPT ![c] =
          IF ~HasRow(j)
          THEN [IdleClient EXCEPT !.out = [NoOut EXCEPT !.kind = "not_found", !.n = j]]
          ELSE IF NoProbe(Snapshot(j))
          THEN [IdleClient EXCEPT !.out = [NoOut EXCEPT !.kind = "view", !.n = j,
                                            !.status = jobs[j].status]]
          ELSE [IdleClient EXCEPT !.pc = "reconcile", !.rows = <<Snapshot(j)>>]]
    /\ UNCHANGED <<config, jobs, jobseq, notifications, notifseq, audit, procs,
                   files, watcher, signals>>

\* SELECT * FROM jobs ORDER BY id DESC LIMIT ?
ListRows(limit) == Take(SortDesc(DOMAIN jobs), limit)

\* the rows of a listing that check_and_update_status will probe, in order
Probed(ids) == SelectSeq([i \in 1..Len(ids) |-> Snapshot(ids[i])],
                         LAMBDA snap : ~NoProbe(snap))

\* list_jobs: the SELECT
ListJobs(c, limit) ==
    /\ client[c].pc = "idle"
    /\ LET ids == ListRows(limit) IN
        client' = [client EXCEPT ![c] =
          IF ids = <<>>
          THEN [IdleClient EXCEPT !.out = [NoOut EXCEPT !.kind = "no_jobs"]]
          ELSE IF Probed(ids) = <<>>
          THEN [IdleClient EXCEPT !.out = [NoOut EXCEPT !.kind = "listed",
                                                        !.n = Len(ids)]]
          ELSE [IdleClient EXCEPT !.pc = "reconcile", !.rows = Probed(ids)]]
    /\ UNCHANGED <<config, jobs, jobseq, notifications, notifseq, audit, procs,
                   files, watcher, signals>>

\* check_and_update_status on the next row read as running with a pid
Reconcile(c) ==
    /\ client[c].pc = "reconcile"
    /\ LET job == Head(client[c].rows)
           rest == Tail(client[c].rows)
           gone == ~Alive(job.pid)
       IN
        /\ jobs' = IF gone THEN UpdateRow(jobs, job.id, ReconcileRow) ELSE jobs
        /\ client' = [client EXCEPT ![c] =
              IF rest = <<>>
              THEN [IdleClient EXCEPT !.out = [NoOut EXCEPT !.kind = "view",
                        !.n = job.id,
                        !.status = IF gone THEN "done" ELSE job.status]]
              ELSE [client[c] EXCEPT !.rows = rest]]
    /\ UNCHANGED <<config, jobseq, notifications, notifseq, audit, procs, files,
                   watcher, signals>>


\* mutant of CancelRow: the status alone is written, finished_at stays NULL
CancelRowNoStamp(row) == [row EXCEPT !.status = "cancelled"]

\* ---- jobs.py: cancel ----
\* UPDATE jobs SET status='cancelled', finished_at=? WHERE id=?
CancelRow(row) == [row EXCEPT !.status = "cancelled", !.finished_at = "ts"]

\* mutant of KillTargets: os.kill(pid, SIGTERM), the recorded pid alone
KillTargetsPidOnly(pid) == IF Alive(pid) THEN {pid} ELSE {}

\* os.killpg(os.getpgid(pid), SIGTERM): the pids that receive the signal;
\* getpgid raises for a pid that is no process
KillTargets(pid) == IF Alive(pid) THEN Group(procs[pid].pgid) ELSE {}

\* mutant of CancelRead: the early return for a terminal row is missing
CancelReadAnyStatus(c, j) ==
    /\ client[c].pc = "idle"
    /\ client' = [client EXCEPT ![c] =
          IF ~HasRow(j)
          THEN [IdleClient EXCEPT !.out = [NoOut EXCEPT !.kind = "not_found", !.n = j]]
          ELSE [IdleClient EXCEPT !.pc = "cancel", !.job = j, !.pid = jobs[j].pid]]
    /\ UNCHANGED <<config, jobs, jobseq, notifications, notifseq, audit, procs,
                   files, watcher, signals>>

\* mutant of CancelRead: the 'not found' return is missing
CancelReadNoLookup(c, j) ==
    /\ client[c].pc = "idle"
    /\ client' = [client EXCEPT ![c] =
          IF HasRow(j) /\ jobs[j].status # "running"
          THEN [IdleClient EXCEPT !.out = [NoOut EXCEPT !.kind = "already", !.n = j,
                                            !.status = jobs[j].status]]
          ELSE [IdleClient EXCEPT !.pc = "cancel", !.job = j,
                                  !.pid = IF HasRow(j) THEN jobs[j].pid ELSE 0]]
    /\ UNCHANGED <<config, jobs, jobseq, notifications, notifseq, audit, procs,
                   files, watcher, signals>>

\* cancel_job: the SELECT and the two early returns
CancelRead(c, j) ==
    /\ client[c].pc = "idle"
    /\ client' = [client EXCEPT ![c] =
          IF ~HasRow(j)
          THEN [IdleClient EXCEPT !.out = [NoOut EXCEPT !.kind = "not_found", !.n = j]]
          ELSE IF jobs[j].status # "running"
          THEN [IdleClient EXCEPT !.out = [NoOut EXCEPT !.kind = "already", !.n = j,
                                            !.status = jobs[j].status]]
          ELSE [IdleClient EXCEPT !.pc = "cancel", !.job = j, !.pid = jobs[j].pid]]
    /\ UNCHANGED <<config, jobs, jobseq, notifications, notifseq, audit, procs,
                   files, watcher, signals>>

\* cancel_job: signal the process group if there is a pid, then mark the row
CancelKill(c) ==
    /\ client[c].pc = "cancel"
    /\ LET j == client[c].job
           hit == IF client[c].pid # 0 THEN KillTargets(client[c].pid) ELSE {}
       IN
        /\ procs' = [p \in Pids |-> IF p \in hit THEN NoProc ELSE procs[p]]
        /\ signals' = signals \cup {[by |-> j, pid |-> p, owner |-> procs[p].owner] : p \in hit}
        /\ jobs' = UpdateRow(jobs, j, CancelRow)
        /\ client' = [client EXCEPT ![c] =
              [IdleClient EXCEPT !.out = [NoOut EXCEPT !.kind = "cancelled", !.n = j,
                    !.status = IF hit # {} THEN "signalled" ELSE "gone"]]]
    /\ UNCHANGED <<config, jobseq, notifications, notifseq, audit, files, watcher>>

\* mutant of Pending: the WHERE delivered = 0 is missing
PendingAnyFlag == SortAsc(DOMAIN notifications)

\* ---- jobs.py: notify ----
\* SELECT * FROM notifications WHERE delivered = 0 ORDER BY created_at
\* (created_at is taken right before the insert: insertion order)
Pending == SortAsc({n \in DOMAIN notifications : notifications[n].delivered = 0})

\* get_notifications: the SELECT; the rows are printed
NotifySelect(c) ==
    /\ client[c].pc = "idle"
    /\ client' = [client EXCEPT ![c] =
          IF Pending = <<>>
          THEN [IdleClient EXCEPT !.out = [NoOut EXCEPT !.kind = "no_pending"]]
          ELSE [IdleClient EXCEPT !.pc = "notify", !.ids = Pending]]
    /\ UNCHANGED <<config, jobs, jobseq, notifications, notifseq, audit, procs,
                   files, watcher, signals>>

\* mutant of MarkDelivered: only the first row read is updated
MarkFirstDelivered(tbl, ids) ==
    [n \in DOMAIN tbl |->
        IF ids # <<>> /\ ids[1] = n THEN [tbl[n] EXCEPT !.delivered = 1] ELSE tbl[n]]

\* mutant of MarkDelivered: UPDATE notifications SET delivered = 1, no WHERE
MarkAllDelivered(tbl, ids) == [n \in DOMAIN tbl |-> [tbl[n] EXCEPT !.delivered = 1]]

\* UPDATE notifications SET delivered = 1 WHERE id = ?  for each row read
MarkDelivered(tbl, ids) ==
    [n \in DOMAIN tbl |->
        IF \E i \in 1..Len(ids) : ids[i] = n THEN [tbl[n] EXCEPT !.delivered = 1]
        ELSE tbl[n]]

\* get_notifications: the updates and the commit
NotifyCommit(c) ==
    /\ client[c].pc = "notify"
    /\ notifications' = MarkDelivered(notifications, client[c].ids)
    /\ client' = [client EXCEPT ![c] =
          [IdleClient EXCEPT !.out = [NoOut EXCEPT !.kind = "notified",
                                                   !.ids = client[c].ids]]]
    /\ UNCHANGED <<config, jobs, jobseq, notifseq, audit, procs, files, watcher,
                   signals>>


\* ---- jobs.py: clean ----
\* mutant of CleanTargets: the WHERE status IN (...) is missing
CleanTargetsAnyStatus(keep) == Offset(SortDesc(DOMAIN jobs), keep)

\* SELECT id, output_file FROM jobs WHERE status IN ('done','failed','cancelled')
\* ORDER BY id DESC LIMIT -1 OFFSET keep
CleanTargets(keep) ==
    Offset(SortDesc({j \in DOMAIN jobs : jobs[j].status \in Terminal}), keep)

\* clean_jobs: the SELECT
CleanSelect(c, keep) ==
    /\ client[c].pc = "idle"
    /\ LET ids == CleanTargets(keep) IN
        client' = [client EXCEPT ![c] =
          IF ids = <<>>
          THEN [IdleClient EXCEPT !.out = [NoOut EXCEPT !.kind = "nothing_to_clean",
                                                        !.m = keep]]
          ELSE [IdleClient EXCEPT !.pc = "clean", !.keep = keep,
                                  !.rows = [i \in 1..Len(ids) |-> Snapshot(ids[i])]]]
    /\ UNCHANGED <<config, jobs, jobseq, notifications, notifseq, audit, procs,
                   files, watcher, signals>>

\* the ids of the rows a clean has read
RowIds(rows) == {rows[i].id : i \in 1..Len(rows)}
\* mutant of Unlinked: the artifacts of every job up to the newest removed
\* one are unlinked
UnlinkedUpTo(rows) == {j \in AllIds : \E i \in 1..Len(rows) : j <= rows[i].id}

\* the rows whose artifacts are unlinked: those with an output_file
Unlinked(rows) == {rows[i].id : i \in {k \in 1..Len(rows) : rows[k].output_file # 0}}

\* clean_jobs: per row unlink <id>.out, <id>.err and watcher_<id>.py, delete
\* its notifications and its job row; one commit
CleanDelete(c) ==
    /\ client[c].pc = "clean"
    /\ LET D == RowIds(client[c].rows)
           U == Unlinked(client[c].rows)
       IN
        /\ files' = [j \in AllIds |-> IF j \in U THEN NoFiles ELSE files[j]]
        /\ notifications' = DeleteRows(notifications,
              {n \in DOMAIN notifications : notifications[n].job_id \in D})
        /\ jobs' = DeleteRows(jobs, D)
        /\ client' = [client EXCEPT ![c] =
              [IdleClient EXCEPT !.out = [NoOut EXCEPT !.kind = "cleaned",
                                                       !.n = Len(client[c].rows),
                                                       !.m = client[c].keep]]]
    /\ UNCHANGED <<config, jobseq, notifseq, audit, procs, watcher, signals>>

\* ---- the system ----
Keeps == 0..MaxKeep
Limits == 1..MaxLimit
\* the job ids a call may name: those handed out and one that never was
JobArgs == 1..(MaxJobs + 1)

\* The jobs.py command line over one job: submit, status/result, list, cancel,
\* notify, clean, with the launched process, its children and its watcher.
Next ==
    \/ \E c \in Clients : jobseq < MaxJobs /\ SubmitDirect(c, "ok", ShortOutputs)
    \/ \E c \in Clients : jobseq < MaxJobs /\ SubmitLaunchFails(c)
    \/ \E c \in Clients : SubmitSpawnWatcher(c)
    \/ \E p \in Pids : ProcFork(p)
    \/ \E p \in Pids : ProcExit(p)
    \/ \E j \in JobArgs : WatcherPoll(j)
    \/ \E j \in JobArgs : WatcherRead(j)
    \/ \E j \in JobArgs : WatcherFinalize(j)
    \/ \E j \in JobArgs : WatcherKill(j)
    \/ \E c \in Clients, j \in JobArgs : ReadJob(c, j)
    \/ \E c \in Clients, n \in Limits : ListJobs(c, n)
    \/ \E c \in Clients : Reconcile(c)
    \/ \E c \in Clients, j \in JobArgs : CancelRead(c, j)
    \/ \E c \in Clients : CancelKill(c)
    \/ \E c \in Clients : NotifySelect(c)
    \/ \E c \in Clients : NotifyCommit(c)
    \/ \E c \in Clients, k \in Keeps : CleanSelect(c, k)
    \/ \E c \in Clients : CleanDelete(c)

Spec == Init /\ [][Next]_vars


\* one CLI invocation at a time
FirstClient == {c \in Clients : \A d \in Clients : c <= d}

\* Spec, and the watcher script of a job run again after its process ended
\* (killed, or finished)
NextRerun ==
    \/ Next
    \/ \E j \in JobArgs : WatcherRerun(j)

SpecRerun == Init /\ [][NextRerun]_vars

\* a process that prints one line and one error
OneOutput == { [out |-> << <<"o", "\n">> >>, err |-> <<"e">>] }

\* an operator has set max_concurrent_jobs in safety.json
InitAdmission ==
    /\ config \in [max_concurrent_jobs : 1..MaxQuota]
    /\ jobs = << >>
    /\ jobseq = 0
    /\ notifications = << >>
    /\ notifseq = 0
    /\ audit = << >>
    /\ procs = [p \in Pids |-> NoProc]
    /\ files = [j \in AllIds |-> NoFiles]
    /\ watcher = [j \in AllIds |-> NoWatcher]
    /\ client = [c \in Clients |-> IdleClient]
    /\ signals = {}

PairArgs == 1..MaxPairJobs

\* the launched processes and their watchers
NextJobsRun ==
    \/ \E c \in Clients : SubmitSpawnWatcher(c)
    \/ \E p \in Pids : ProcExit(p)
    \/ \E j \in PairArgs : WatcherPoll(j)
    \/ \E j \in PairArgs : WatcherRead(j)
    \/ \E j \in PairArgs : WatcherFinalize(j)

\* callers that ask guard_job and then call submit_job, and cancels
NextGuarded ==
    \/ \E c \in Clients, cmd \in Commands : GuardJob(c, cmd)
    \/ \E c \in Clients : jobseq < MaxPairJobs /\ SubmitApproved(c, OneOutput)
    \/ \E c \in Clients, j \in PairArgs : CancelRead(c, j)
    \/ \E c \in Clients : CancelKill(c)
    \/ NextJobsRun

SpecGuarded == InitAdmission /\ [][NextGuarded]_vars

\* such callers beside the jobs.py command line, whose submit calls submit_job
NextAdmission ==
    \/ \E c \in Clients, cmd \in Commands : GuardJob(c, cmd)
    \/ \E c \in Clients : jobseq < MaxPairJobs /\ SubmitApproved(c, OneOutput)
    \/ \E c \in Clients, cmd \in Commands :
          jobseq < MaxPairJobs /\ SubmitDirect(c, cmd, OneOutput)
    \/ NextJobsRun

SpecAdmission == InitAdmission /\ [][NextAdmission]_vars

\* two jobs, their watchers, consumers of notifications and clean_jobs
NextNotify ==
    \/ \E c \in Clients : jobseq < MaxPairJobs /\ SubmitDirect(c, "ok", OneOutput)
    \/ \E c \in Clients : NotifySelect(c)
    \/ \E c \in Clients : NotifyCommit(c)
    \/ \E c \in Clients, k \in Keeps : CleanSelect(c, k)
    \/ \E c \in Clients : CleanDelete(c)
    \/ NextJobsRun

SpecNotify == Init /\ [][NextNotify]_vars

\* A jobs table as earlier submissions, watchers, cancels and cleans leave it:
\* each id up to MaxCleanJobs has no row any more, or a row finalized by its
\* watcher (with its notification), or a cancelled row; at most one job, with
\* pid 1, is still running and watched.
DoneRow(j) ==
    [NewRow("ok", j, 0) EXCEPT !.pid = MaxPid, !.status = "done",
                               !.finished_at = "ts", !.exit_code = 1,
                               !.error = << <<"e">> >>]
CancelledRow(j) ==
    [NewRow("ok", j, 0) EXCEPT !.pid = MaxPid, !.status = "cancelled",
                               !.finished_at = "ts"]
JobFiles(p) == [out |-> << << <<"o", "\n">> >> >>, err |-> << <<"e">> >>, script |-> p]

CleanIds == 1..MaxCleanJobs

InitClean ==
    /\ config = [max_concurrent_jobs |-> DefaultMaxConcurrent]
    /\ \E st \in [CleanIds -> {"none", "running", "done", "cancelled"}] :
        /\ Cardinality({j \in CleanIds : st[j] = "running"}) <= 1
        /\ jobs = [j \in {k \in CleanIds : st[k] # "none"} |->
              CASE st[j] = "running" -> NewRow("ok", j, 1)
                [] st[j] = "done" -> DoneRow(j)
                [] OTHER -> CancelledRow(j)]
        /\ notifications = [j \in {k \in CleanIds : st[k] = "done"} |->
              NewNotification(j, <<"e">>, <<"o", "\n">>)]
        /\ procs = [p \in Pids |->
              IF p = 1 /\ \E j \in CleanIds : st[j] = "running"
              THEN [owner |-> CHOOSE j \in CleanIds : st[j] = "running", pgid |-> 1]
              ELSE NoProc]
        /\ files = [j \in AllIds |->
              IF j \in CleanIds /\ st[j] # "none"
              THEN JobFiles(IF st[j] = "running" THEN 1 ELSE MaxPid)
              ELSE NoFiles]
        /\ watcher = [j \in AllIds |->
              IF j \in CleanIds /\ st[j] = "running"
              THEN [NoWatcher EXCEPT !.pc = "poll", !.pid = 1]
              ELSE IF j \in CleanIds /\ st[j] = "done"
              THEN [NoWatcher EXCEPT !.pc = "done", !.pid = MaxPid]
              ELSE IF j \in CleanIds /\ st[j] = "cancelled"
              THEN [NoWatcher EXCEPT !.pc = "dead", !.pid = MaxPid]
              ELSE NoWatcher]
    /\ jobseq = MaxCleanJobs
    /\ notifseq = MaxCleanJobs
    /\ audit = << >>
    /\ client = [c \in Clients |-> IdleClient]
    /\ signals = {}

\* clean_jobs on such a table, while the running job ends and is finalized
NextClean ==
    \/ \E c \in FirstClient, k \in Keeps : CleanSelect(c, k)
    \/ \E c \in FirstClient : CleanDelete(c)
    \/ \E p \in Pids : ProcExit(p)
    \/ \E j \in CleanIds : WatcherPoll(j)
    \/ \E j \in CleanIds : WatcherRead(j)
    \/ \E j \in CleanIds : WatcherFinalize(j)

SpecClean == InitClean /\ [][NextClean]_vars

\* what processes write: nothing, white space only, text inside white space,
\* more lines than the preview takes, more characters than the preview and
\* the stored excerpt take
TextOutputs ==
    { [out |-> <<>>, err |-> <<>>],
      [out |-> << <<"o", "\n">> >>, err |-> <<"\n">>],
      [out |-> << <<"o", "\n">> >>, err |-> <<"e">>],
      [out |-> << <<"o", "\n">>, <<"\n">> >>, err |-> <<" ", "e", " ", "e", "\n">>],
      [out |-> [i \in 1..(PreviewLines + 1) |-> <<"o", "\n">>], err |-> Rep("e", ErrLimit)],
      [out |-> << Rep("o", PreviewLimit + 1) >>, err |-> Rep("e", ErrLimit + 1)],
      [out |-> << <<"o">> >>, err |-> <<"\n">> \o Rep("e", ErrLimit + 1) \o <<"\n">>] }

\* one job with any of these outputs, read, cancelled and cleaned meanwhile
NextText ==
    \/ \E c \in Clients : jobseq < MaxJobs /\ SubmitDirect(c, "ok", TextOutputs)
    \/ \E c \in Clients : SubmitSpawnWatcher(c)
    \/ \E p \in Pids : ProcExit(p)
    \/ \E j \in JobArgs : WatcherPoll(j)
    \/ \E j \in JobArgs : WatcherRead(j)
    \/ \E j \in JobArgs : WatcherFinalize(j)
    \/ \E c \in FirstClient, j \in JobArgs : ReadJob(c, j)
    \/ \E c \in FirstClient : Reconcile(c)
    \/ \E c \in FirstClient, j \in JobArgs : CancelRead(c, j)
    \/ \E c \in FirstClient : CancelKill(c)
    \/ \E c \in FirstClient, k \in Keeps : CleanSelect(c, k)
    \/ \E c \in FirstClient : CleanDelete(c)

SpecText == Init /\ [][NextText]_vars

\* submissions (some of which fail to launch), cancels and cleans in sequence
\* by one caller, beside submissions of the others
NextIds ==
    \/ \E c \in Clients : jobseq < MaxPairJobs /\ SubmitDirect(c, "ok", OneOutput)
    \/ \E c \in Clients : jobseq < MaxPairJobs /\ SubmitLaunchFails(c)
    \/ \E c \in FirstClient, j \in PairArgs : CancelRead(c, j)
    \/ \E c \in FirstClient : CancelKill(c)
    \/ \E c \in FirstClient, k \in Keeps : CleanSelect(c, k)
    \/ \E c \in FirstClient : CleanDelete(c)
    \/ NextJobsRun

SpecIds == Init /\ [][NextIds]_vars

\* two jobs, their watchers, and readers only: status/result and list
NextReaders ==
    \/ \E c \in Clients : jobseq < MaxPairJobs /\ SubmitDirect(c, "ok", ShortOutputs)
    \/ \E c \in Clients, j \in PairArgs : ReadJob(c, j)
    \/ \E c \in Clients, n \in Limits : ListJobs(c, n)
    \/ \E c \in Clients : Reconcile(c)
    \/ NextJobsRun

SpecReaders == Init /\ [][NextReaders]_vars

\* one job that is never cancelled or cleaned and whose watcher is not
\* killed, with readers and consumers of notifications
NextLive ==
    \/ \E c \in Clients : jobseq < MaxJobs /\ SubmitDirect(c, "ok", ShortOutputs)
    \/ \E c \in Clients : SubmitSpawnWatcher(c)
    \/ \E p \in Pids : ProcFork(p)
    \/ \E p \in Pids : ProcExit(p)
    \/ \E j \in JobArgs : WatcherPoll(j)
    \/ \E j \in JobArgs : WatcherRead(j)
    \/ \E j \in JobArgs : WatcherFinalize(j)
    \/ \E c \in Clients, j \in JobArgs : ReadJob(c, j)
    \/ \E c \in Clients : Reconcile(c)
    \/ \E c \in Clients : NotifySelect(c)
    \/ \E c \in Clients : NotifyCommit(c)

\* submit_job runs on to the spawn of the watcher, every launched process
\* exits at some time, and the watcher process keeps being scheduled: its
\* poll loop, its sleep and its transaction each take their next step
SpecLive ==
    /\ Init
    /\ [][NextLive]_vars
    /\ \A c \in Clients : WF_vars(SubmitSpawnWatcher(c))
    /\ \A p \in Pids : WF_vars(ProcExit(p))
    /\ \A j \in JobArgs : WF_vars(WatcherPoll(j))
    /\ \A j \in JobArgs : WF_vars(WatcherRead(j))
    /\ \A j \in JobArgs : WF_vars(WatcherFinalize(j))

\* two jobs whose watchers may be killed, with status/result reads and cancels
NextLoss ==
    \/ \E c \in Clients : jobseq < MaxPairJobs /\ SubmitDirect(c, "ok", OneOutput)
    \/ \E j \in PairArgs : WatcherKill(j)
    \/ \E c \in Clients, j \in PairArgs : ReadJob(c, j)
    \/ \E c \in Clients : Reconcile(c)
    \/ \E c \in FirstClient, j \in PairArgs : CancelRead(c, j)
    \/ \E c \in FirstClient : CancelKill(c)
    \/ NextJobsRun

SpecLoss == Init /\ [][NextLoss]_vars

\* A jobs table that holds job 1 as 'running' without pid and output_file:
\* the schema allows it (pid INTEGER, output_file TEXT, both nullable) and
\* check_and_update_status and cancel_job branch on it; submit_job itself
\* commits a row only together with its pid.
InitUnstarted ==
    /\ config = [max_concurrent_jobs |-> DefaultMaxConcurrent]
    /\ jobs = InsertRow(<< >>, 1, [NewRow("ok", 1, 0) EXCEPT !.output_file = 0])
    /\ jobseq = 1
    /\ notifications = << >>
    /\ notifseq = 0
    /\ audit = << >>
    /\ procs = [p \in Pids |-> NoProc]
    /\ files = [j \in AllIds |-> NoFiles]
    /\ watcher = [j \in AllIds |-> NoWatcher]
    /\ client = [c \in Clients |-> IdleClient]
    /\ signals = {}

\* reads, listings, cancels and cleans on that table, beside one more job
\* that is submitted and runs
NextUnstarted ==
    \/ \E c \in Clients : jobseq < MaxPairJobs /\ SubmitDirect(c, "ok", OneOutput)
    \/ \E c \in Clients, j \in PairArgs : ReadJob(c, j)
    \/ \E c \in Clients, n \in Limits : ListJobs(c, n)
    \/ \E c \in Clients : Reconcile(c)
    \/ \E c \in FirstClient, j \in PairArgs : CancelRead(c, j)
    \/ \E c \in FirstClient : CancelKill(c)
    \/ \E c \in FirstClient, k \in Keeps : CleanSelect(c, k)
    \/ \E c \in FirstClient : CleanDelete(c)
    \/ NextJobsRun

SpecUnstarted == InitUnstarted /\ [][NextUnstarted]_vars

\* ======================= the claims =======================

\* C1: job status is monotonic: once a job's stored status is 'done' or
\* 'cancelled', no step of any process changes it to a different value.
C1_StatusMonotonic ==
    [][\A j \in DOMAIN jobs :
          (jobs[j].status \in {"done", "cancelled"} /\ j \in DOMAIN jobs')
              => jobs'[j].status = jobs[j].status]_vars

\* C2: however often the watcher's finalize step runs for a job, the
\* notifications table holds at most one row for that job.
C2_OneNotificationPerJob ==
    \A j \in AllIds :
        Cardinality({n \in DOMAIN notifications : notifications[n].job_id = j}) <= 1

\* client c starts a submission in this step: it calls guard_job, or it
\* enters submit_job without having asked
AttemptsSubmission(c) ==
    /\ client[c].pc = "idle"
    /\ client'[c] # client[c]
    /\ \/ Len(audit') > Len(audit)
       \/ client'[c].pc = "spawn"

\* C3: a submission attempted while the number of 'running' rows is at or
\* above max_concurrent_jobs is denied, a denial for the quota names the
\* current and the maximum count, and the jobs table gets no new row.
C3_DeniedAtQuota ==
    [][\A c \in Clients :
          (RunningCount >= config.max_concurrent_jobs /\ AttemptsSubmission(c)) =>
              /\ client'[c].out.kind = "denied"
              /\ client'[c].out.status = "quota" =>
                    /\ client'[c].out.n = RunningCount
                    /\ client'[c].out.m = config.max_concurrent_jobs
              /\ DOMAIN jobs' = DOMAIN jobs]_vars

AllowedRecords(cmd) ==
    {i \in 1..Len(audit) : audit[i].command = cmd /\ audit[i].result = "allowed"}

\* C4: every job row was admitted: guard_job has returned 'allow' for its
\* command, and no more rows were ever inserted than guard_job allowed.
C4_AdmittedOnly ==
    /\ \A j \in DOMAIN jobs : AllowedRecords(jobs[j].command) # {}
    /\ jobseq <= Cardinality({i \in 1..Len(audit) : audit[i].result = "allowed"})

\* C5: the number of 'running' rows never exceeds max_concurrent_jobs.
C5_QuotaHolds == RunningCount <= config.max_concurrent_jobs

\* C6: cancel_job past its early returns leaves the row 'cancelled' with a
\* finished_at, whatever became of the signal, and when the pid is a live
\* process every member of that process's group receives SIGTERM.
C6_CancelMarksAndSignalsGroup ==
    [][\A c \in Clients :
          (client[c].pc = "cancel" /\ client'[c].pc = "idle") =>
              LET j == client[c].job
                  pid == client[c].pid
              IN  /\ HasRow(j) =>
                        /\ j \in DOMAIN jobs'
                        /\ jobs'[j].status = "cancelled"
                        /\ jobs'[j].finished_at # "NULL"
                  /\ Alive(pid) =>
                        \A q \in Pids :
                            (procs[q].owner # 0 /\ procs[q].pgid = procs[pid].pgid) =>
                                /\ [by |-> j, pid |-> q, owner |-> procs[q].owner]
                                       \in signals'
                                /\ procs'[q].owner = 0
                  /\ ~Alive(pid) => signals' = signals /\ procs' = procs]_vars

\* C6 witness: a cancel has signalled a process and its child, and the job
\* is stored as cancelled with a finished_at.
C6_Witness ==
    \E j \in DOMAIN jobs, p, q \in Pids :
        /\ p # q
        /\ [by |-> j, pid |-> p, owner |-> j] \in signals
        /\ [by |-> j, pid |-> q, owner |-> j] \in signals
        /\ jobs[j].status = "cancelled"
        /\ jobs[j].finished_at = "ts"

\* C7: cancel_job on a row that is already terminal goes no further than its
\* early return: it reports the stored status and changes neither table, sends
\* no signal and ends no process; only a row read as 'running' takes cancel_job
\* to the signal and the update.
C7_CancelTerminalNoOp ==
    [][\A c \in Clients :
          /\ (client[c].pc = "idle" /\ client'[c].pc = "cancel") =>
                jobs[client'[c].job].status = "running"
          /\ (client[c].pc = "idle" /\ client'[c] # client[c]
                /\ client'[c].out.kind = "already") =>
                LET j == client'[c].out.n IN
                    /\ HasRow(j)
                    /\ jobs[j].status \in Terminal
                    /\ client'[c].out.status = jobs[j].status
                    /\ client'[c].pc = "idle"
                    /\ jobs' = jobs
                    /\ notifications' = notifications
                    /\ signals' = signals
                    /\ procs' = procs]_vars

\* C7 witness: a cancel of a cancelled job has reported 'cancelled'.
C7_Witness ==
    \E c \in Clients :
        /\ client[c].out.kind = "already"
        /\ client[c].out.status = "cancelled"
        /\ HasRow(client[c].out.n)
        /\ jobs[client[c].out.n].status = "cancelled"


PendingSet == {n \in DOMAIN notifications : notifications[n].delivered = 0}
SeqSet(q) == {q[i] : i \in 1..Len(q)}

\* C8: a get_notifications call returns every undelivered notification and
\* sets delivered = 1 on each of them; a call made when nothing is undelivered
\* returns none; nothing becomes undelivered except by a new insert, so when
\* nothing was inserted since the first call's select its commit leaves
\* nothing for a second call.
C8_NotifyTwice ==
    [][/\ \A c \in Clients :
            /\ (client[c].pc = "idle" /\ client'[c].pc = "notify") =>
                  /\ SeqSet(client'[c].ids) = PendingSet
                  /\ PendingSet # {}
                  /\ \A i, k \in 1..Len(client'[c].ids) :
                        i < k => client'[c].ids[i] < client'[c].ids[k]
            /\ (client[c].pc = "idle" /\ client'[c] # client[c]
                  /\ client'[c].out.kind = "no_pending") => PendingSet = {}
            /\ (client[c].pc = "notify" /\ client'[c].pc = "idle") =>
                  /\ client'[c].out.ids = client[c].ids
                  /\ \A n \in SeqSet(client[c].ids) \cap DOMAIN notifications :
                        /\ n \in DOMAIN notifications'
                        /\ notifications'[n].delivered = 1
                  /\ PendingSet \subseteq SeqSet(client[c].ids) =>
                        {n \in DOMAIN notifications' :
                            notifications'[n].delivered = 0} = {}
       /\ \A n \in DOMAIN notifications' :
            notifications'[n].delivered = 0 =>
                \/ n \notin DOMAIN notifications
                \/ notifications[n].delivered = 0]_vars

\* C8 witness: a call has returned two notifications, both are now delivered
\* and nothing is left undelivered.
C8_Witness ==
    \E c \in Clients :
        /\ client[c].out.kind = "notified"
        /\ Len(client[c].out.ids) = 2
        /\ \A n \in SeqSet(client[c].out.ids) :
              n \in DOMAIN notifications /\ notifications[n].delivered = 1
        /\ PendingSet = {}


TerminalIds == {j \in DOMAIN jobs : jobs[j].status \in Terminal}

\* the terminal jobs that are not among the keep terminal jobs with the
\* highest ids
BeyondNewest(keep) ==
    {j \in TerminalIds : Cardinality({k \in TerminalIds : k > j}) >= keep}

\* C9: clean_jobs(keep) selects exactly the terminal jobs that are not among
\* the keep newest terminal jobs, and removes exactly the selected jobs: their
\* rows, their notifications, their two artifacts and their watcher script;
\* every other row, notification and file is left as it was.  When the table
\* did not change between the select and the delete, what remains is every
\* running job and the keep newest terminal jobs.
C9_CleanExact ==
    [][\A c \in Clients :
          /\ (client[c].pc = "idle" /\ client'[c].pc = "clean") =>
                /\ RowIds(client'[c].rows) = BeyondNewest(client'[c].keep)
                /\ BeyondNewest(client'[c].keep) # {}
          /\ (client[c].pc = "idle" /\ client'[c] # client[c]
                /\ client'[c].out.kind = "nothing_to_clean") =>
                /\ BeyondNewest(client'[c].out.m) = {}
                /\ jobs' = jobs /\ notifications' = notifications /\ files' = files
          /\ (client[c].pc = "clean" /\ client'[c].pc = "idle") =>
                LET D == RowIds(client[c].rows) IN
                /\ DOMAIN jobs' = DOMAIN jobs \ D
                /\ \A j \in DOMAIN jobs' : jobs'[j] = jobs[j]
                /\ DOMAIN notifications' =
                      {n \in DOMAIN notifications : notifications[n].job_id \notin D}
                /\ \A n \in DOMAIN notifications' : notifications'[n] = notifications[n]
                /\ \A j \in AllIds :
                      files'[j] = IF j \in D THEN NoFiles ELSE files[j]
                /\ D = BeyondNewest(client[c].keep) =>
                      /\ \A j \in DOMAIN jobs :
                            jobs[j].status = "running" => j \in DOMAIN jobs'
                      /\ {j \in DOMAIN jobs' : jobs'[j].status \in Terminal}
                            = TerminalIds \ BeyondNewest(client[c].keep)
                      /\ Cardinality({j \in DOMAIN jobs' : jobs'[j].status \in Terminal})
                            = Min(client[c].keep, Cardinality(TerminalIds))]_vars

\* C9 witness: clean_jobs(keep=2) on five terminal jobs and one running job,
\* the oldest, has removed the three oldest terminal jobs with their
\* notifications and files and left the other three jobs.
C9_Witness ==
    \E c \in Clients :
        /\ client[c].out.kind = "cleaned"
        /\ client[c].out.n = 3
        /\ client[c].out.m = 2
        /\ DOMAIN jobs = {1, 5, 6}
        /\ jobs[1].status = "running"
        /\ jobs[5].status \in Terminal /\ jobs[6].status \in Terminal
        /\ \A j \in {2, 3, 4} : files[j] = NoFiles
        /\ \A j \in {1, 5, 6} : files[j] # NoFiles
        /\ \A n \in DOMAIN notifications : notifications[n].job_id \in {5, 6}


IsPrefix(pre, t) == Len(pre) <= Len(t) /\ SubSeq(t, 1, Len(pre)) = pre

\* the text between the first and the last character that is not white space
Inner(t) ==
    LET ink == {i \in 1..Len(t) : ~IsSpace(t[i])} IN
    IF ink = {} THEN <<>>
    ELSE SubSeq(t, CHOOSE i \in ink : \A k \in ink : i <= k,
                   CHOOSE i \in ink : \A k \in ink : i >= k)

\* the watcher of job j commits its transaction in this step, the row and
\* the error artifact are there
Finalizes(j) ==
    /\ watcher[j].pc = "finalize"
    /\ watcher'[j].pc = "done"
    /\ HasRow(j)
    /\ files[j].err # <<>>

\* C10 as claimed: an empty error artifact gives 'done', exit_code 0 and no
\* excerpt; a non-empty one gives 'done', exit_code 1 and an excerpt that is a
\* prefix of the captured text, at most 500 characters long.
C10_ExitFromErrorArtifact ==
    [][\A j \in AllIds :
          Finalizes(j) =>
              LET raw == files[j].err[1] IN
              /\ jobs'[j].status = "done"
              /\ raw = <<>> => jobs'[j].exit_code = 0 /\ jobs'[j].error = <<>>
              /\ raw # <<>> =>
                    /\ jobs'[j].exit_code = 1
                    /\ jobs'[j].error # <<>>
                    /\ Len(jobs'[j].error[1]) <= ErrLimit
                    /\ IsPrefix(jobs'[j].error[1], raw)]_vars

\* C10 amended: the same of the error artifact's text with leading and
\* trailing white space removed: nothing left gives 'done', exit_code 0 and
\* the error column as it was; otherwise 'done', exit_code 1 and the first
\* 500 characters of that text as the excerpt.
C10_ExitFromStrippedError ==
    [][\A j \in AllIds :
          Finalizes(j) =>
              LET txt == Inner(files[j].err[1]) IN
              /\ jobs'[j].status = "done"
              /\ jobs'[j].finished_at # "NULL"
              /\ txt = <<>> => jobs'[j].exit_code = 0 /\ jobs'[j].error = jobs[j].error
              /\ txt # <<>> =>
                    /\ jobs'[j].exit_code = 1
                    /\ jobs'[j].error # <<>>
                    /\ Len(jobs'[j].error[1]) = Min(ErrLimit, Len(txt))
                    /\ IsPrefix(jobs'[j].error[1], txt)]_vars

\* C10 witness: an error artifact of a line break, 501 characters and a line
\* break has been finalized as exit_code 1 with the 500 characters after the
\* first line break as the excerpt.
C10_Witness ==
    \E j \in DOMAIN jobs :
        /\ jobs[j].status = "done"
        /\ jobs[j].exit_code = 1
        /\ files[j].err # <<>>
        /\ Len(files[j].err[1]) = ErrLimit + 3
        /\ IsSpace(files[j].err[1][1])
        /\ jobs[j].error = << Rep("e", ErrLimit) >>


\* C11: in every state of the store a job row has a finished_at exactly when
\* its status is terminal: the watcher, the reconciler and cancel set it in
\* the write that leaves 'running', and nothing sets it on a running row.
C11_FinishedIffTerminal ==
    \A j \in DOMAIN jobs :
        (jobs[j].finished_at # "NULL") <=> (jobs[j].status \in Terminal)

\* C11 witness: the watcher has finalized a job and a cancel that had read it
\* as running has marked it afterwards; the row is terminal with a finished_at.
C11_Witness ==
    \E j \in DOMAIN jobs :
        /\ watcher[j].pc = "done"
        /\ jobs[j].status = "cancelled"
        /\ jobs[j].exit_code # NoCode
        /\ jobs[j].finished_at = "ts"

\* C12: no notification is visible for a job whose stored status is
\* 'running': every notification of a job that has a row is the notification
\* of a terminal job.
C12_NotificationsOfTerminalJobs ==
    \A n \in DOMAIN notifications :
        HasRow(notifications[n].job_id) =>
            jobs[notifications[n].job_id].status \in Terminal

\* C12 witness: the watcher has committed; its notification and the 'done'
\* row with its exit code are both there.
C12_Witness ==
    \E n \in DOMAIN notifications :
        /\ HasRow(notifications[n].job_id)
        /\ jobs[notifications[n].job_id].status = "done"
        /\ jobs[notifications[n].job_id].exit_code # NoCode
        /\ watcher[notifications[n].job_id].pc = "done"


\* C13: a notification is inserted with delivered = 0; the flag of a stored
\* notification changes only from 0 to 1 and only in the commit of a
\* get_notifications call; no step sets it back to 0, and a
\* get_notifications call selects no notification whose flag is already 1.
C13_DeliveredOnce ==
    [][/\ \A n \in DOMAIN notifications' \ DOMAIN notifications :
            notifications'[n].delivered = 0
       /\ \A n \in DOMAIN notifications' \cap DOMAIN notifications :
            /\ notifications[n].delivered = 1 => notifications'[n].delivered = 1
            /\ notifications'[n].delivered # notifications[n].delivered =>
                  /\ notifications'[n].delivered = 1
                  /\ \E c \in Clients :
                        /\ client[c].pc = "notify"
                        /\ client'[c].pc = "idle"
                        /\ n \in SeqSet(client[c].ids)
       /\ \A c \in Clients :
            (client[c].pc = "idle" /\ client'[c].pc = "notify") =>
                \A n \in SeqSet(client'[c].ids) :
                    n \in DOMAIN notifications /\ notifications[n].delivered = 0]_vars

\* C13 witness: a notification has been delivered to one consumer, is stored
\* with delivered = 1, and a later call of another consumer returned nothing.
C13_Witness ==
    \E c, d \in Clients, n \in DOMAIN notifications :
        /\ c # d
        /\ client[c].out.kind = "notified"
        /\ n \in SeqSet(client[c].out.ids)
        /\ notifications[n].delivered = 1
        /\ client[d].out.kind = "no_pending"


\* C14: every step keeps the ids in order: a new row's id is larger than
\* every id ever handed out before (none larger than the sequence value, which
\* never goes down and becomes the new id), no step re-keys a row (the row at
\* an id keeps its command and its own artifact name), and so an id whose row
\* clean_jobs removed is never given to a later submission.
C14_IdsIncrease ==
    [][/\ jobseq' >= jobseq
       /\ \A j \in DOMAIN jobs : j <= jobseq
       /\ Cardinality(DOMAIN jobs' \ DOMAIN jobs) <= 1
       /\ \A j \in DOMAIN jobs' \ DOMAIN jobs :
            /\ j > jobseq
            /\ j = jobseq'
            /\ \A k \in DOMAIN jobs : k < j
       /\ \A j \in DOMAIN jobs' \cap DOMAIN jobs :
            /\ jobs'[j].command = jobs[j].command
            /\ jobs'[j].output_file = j]_vars

\* C14 witness: job 1, the highest-numbered job then, was removed by this
\* caller's clean_jobs before the caller's next submission, which got id 2.
C14_Witness ==
    \E c \in FirstClient :
        /\ client[c].pc = "spawn"
        /\ client[c].job = 2
        /\ DOMAIN jobs = {2}
        /\ watcher[1].pc # "none"
        /\ watcher[2].pc = "none"
        /\ files[1] = NoFiles


\* C15: when starting the process fails in submit_job, the store afterwards
\* holds the job's row, 'running' and without a pid.
C15_LaunchFailureLeavesRow ==
    [][\A c \in Clients :
          (client'[c] # client[c] /\ client'[c].out.kind = "launch_failed") =>
              \E j \in DOMAIN jobs' \ DOMAIN jobs :
                  /\ jobs'[j].status = "running"
                  /\ jobs'[j].pid = 0]_vars

\* C16: a finalize step of the watcher on a job whose stored status is
\* already terminal writes nothing: neither table changes.
C16_FinalizeOnTerminalNoOp ==
    [][\A j \in DOMAIN jobs :
          (watcher[j].pc = "finalize" /\ watcher'[j].pc = "done"
              /\ jobs[j].status \in Terminal) =>
                  /\ jobs' = jobs
                  /\ notifications' = notifications]_vars


\* the rows a reader holds are in descending id order
Descending(rows) ==
    \A i, k \in 1..Len(rows) : i < k => rows[i].id > rows[k].id

\* the n highest ids of the jobs table
TopIds(n) == {j \in DOMAIN jobs : Cardinality({k \in DOMAIN jobs : k > j}) < n}

RunningWithPid(j) == jobs[j].status = "running" /\ jobs[j].pid # 0

\* C17: every read goes through the reconciler.  A read that returns at once
\* has found no row that is 'running' with a pid, shows the stored status and
\* writes nothing; otherwise the reader holds exactly rows it read as
\* 'running' with their pids (one row, or the running rows of a listing), and
\* for each of them in turn: if the probe of the pid fails the stored row
\* becomes 'done' with a finished_at, every other column and every other row
\* as it was, and the view shows 'done'; if the probe succeeds nothing is
\* written and the view shows 'running'.  Notifications are never touched.
C17_ReadsReconcile ==
    [][\A c \in Clients :
          /\ (client[c].pc = "idle" /\ client'[c] # client[c]
                /\ client'[c].out.kind = "view") =>
                LET j == client'[c].out.n IN
                    /\ HasRow(j)
                    /\ ~RunningWithPid(j)
                    /\ client'[c].out.status = jobs[j].status
                    /\ jobs' = jobs
          /\ (client[c].pc = "idle" /\ client'[c] # client[c]
                /\ client'[c].out.kind = "listed") =>
                /\ \A j \in TopIds(client'[c].out.n) : ~RunningWithPid(j)
                /\ jobs' = jobs
          /\ (client[c].pc = "idle" /\ client'[c].pc = "reconcile") =>
                LET rows == client'[c].rows IN
                    /\ rows # <<>>
                    /\ Descending(rows)
                    /\ \A i \in 1..Len(rows) :
                          /\ HasRow(rows[i].id)
                          /\ RunningWithPid(rows[i].id)
                          /\ rows[i].status = "running"
                          /\ rows[i].pid = jobs[rows[i].id].pid
                    /\ \/ Len(rows) = 1
                       \/ \E n \in 1..Cardinality(DOMAIN jobs) :
                             RowIds(rows) = {j \in TopIds(n) : RunningWithPid(j)}
                    /\ jobs' = jobs
          /\ (client[c].pc = "reconcile" /\ client'[c] # client[c]) =>
                LET job == Head(client[c].rows) IN
                    /\ DOMAIN jobs' = DOMAIN jobs
                    /\ \A k \in DOMAIN jobs \ {job.id} : jobs'[k] = jobs[k]
                    /\ notifications' = notifications
                    /\ client'[c].pc = "idle" =>
                          /\ client'[c].out.kind = "view"
                          /\ client'[c].out.n = job.id
                          /\ client'[c].out.status =
                                IF Alive(job.pid) THEN "running" ELSE "done"
                    /\ Alive(job.pid) => jobs' = jobs
                    /\ (~Alive(job.pid) /\ HasRow(job.id)) =>
                          /\ jobs'[job.id].status = "done"
                          /\ jobs'[job.id].finished_at # "NULL"
                          /\ jobs'[job.id].exit_code = jobs[job.id].exit_code
                          /\ jobs'[job.id].error = jobs[job.id].error
                          /\ jobs'[job.id].pid = jobs[job.id].pid
                          /\ jobs'[job.id].command = jobs[job.id].command
                          /\ jobs'[job.id].output_file = jobs[job.id].output_file]_vars

\* C17 witness: a read has shown 'done' for a job whose watcher has not
\* finalized: the reconciler stored 'done' with a finished_at, exit_code and
\* error still NULL.
C17_Witness ==
    \E c \in Clients, j \in DOMAIN jobs :
        /\ client[c].out.kind = "view"
        /\ client[c].out.n = j
        /\ client[c].out.status = "done"
        /\ watcher[j].pc \in {"poll", "grace", "finalize"}
        /\ jobs[j].status = "done"
        /\ jobs[j].finished_at = "ts"
        /\ jobs[j].exit_code = NoCode
        /\ jobs[j].error = <<>>

\* what the watcher of job j stores from the job's error artifact
WatcherResult(j) ==
    LET txt == Inner(files[j].err[1]) IN
    [exit_code |-> IF txt = <<>> THEN 0 ELSE 1,
     error |-> IF txt = <<>> THEN <<>> ELSE <<SubSeq(txt, 1, Min(ErrLimit, Len(txt)))>>]

\* C18: with readers and the watcher alone at work, a reconciler write
\* changes no row's exit_code or error and leaves a 'done' row 'done', and
\* from the watcher's finalization on the row is 'done' with the exit_code
\* and error the watcher wrote, whichever readers corrected the row before,
\* between or after.
C18_ReconcilerHarmless ==
    [][/\ (\E c \in Clients : client[c].pc = "reconcile" /\ client'[c] # client[c]) =>
            \A j \in DOMAIN jobs :
                /\ j \in DOMAIN jobs'
                /\ jobs'[j].exit_code = jobs[j].exit_code
                /\ jobs'[j].error = jobs[j].error
                /\ jobs[j].status = "done" => jobs'[j].status = "done"
       /\ \A j \in DOMAIN jobs' :
            watcher'[j].pc = "done" =>
                /\ jobs'[j].status = "done"
                /\ jobs'[j].exit_code = WatcherResult(j).exit_code
                /\ jobs'[j].error = WatcherResult(j).error]_vars

\* C18 witness: a reader still holds the copy of a row it read as 'running'
\* while the watcher has finalized that job with exit_code 1 and an error
\* excerpt, and another reader has already corrected the same row.
C18_Witness ==
    \E c, d \in Clients, j \in DOMAIN jobs :
        /\ c # d
        /\ client[c].pc = "reconcile"
        /\ Head(client[c].rows).id = j
        /\ client[d].out.kind = "view"
        /\ client[d].out.n = j
        /\ client[d].out.status = "done"
        /\ watcher[j].pc = "done"
        /\ jobs[j].status = "done"
        /\ jobs[j].exit_code = 1
        /\ jobs[j].error = << <<"e">> >>


\* C19: the reconciler writes against the stored row, not the copy it read:
\* when the row a reader is about to correct has meanwhile been stored as
\* 'cancelled', it is still 'cancelled' after the reader's step.
C19_ReconcileKeepsCancelled ==
    [][\A c \in Clients :
          (client[c].pc = "reconcile" /\ client'[c] # client[c]) =>
              LET j == Head(client[c].rows).id IN
                  (HasRow(j) /\ jobs[j].status = "cancelled") =>
                      jobs'[j].status = "cancelled"]_vars


\* job j is stored as 'done' with an exit_code and has a notification
Completed(j) ==
    /\ HasRow(j)
    /\ jobs[j].status = "done"
    /\ jobs[j].exit_code # NoCode
    /\ \E n \in DOMAIN notifications : notifications[n].job_id = j

\* C20: every submitted job that is never cancelled or cleaned, whose
\* process exits and whose watcher keeps running, is eventually stored as
\* 'done' with an exit_code and has a notification, and stays so; also when
\* a reader's reconciler stored 'done' with a NULL exit_code first.
C20_CompletionLive ==
    \A j \in JobArgs : HasRow(j) ~> [](Completed(j))

\* C20 witness: a reader was shown 'done' for the job, the watcher has
\* finalized it with exit_code 0, no process of the job is left, and the
\* notification waits undelivered.
C20_Witness ==
    \E c \in Clients, j \in DOMAIN jobs, n \in DOMAIN notifications :
        /\ Completed(j)
        /\ jobs[j].exit_code = 0
        /\ watcher[j].pc = "done"
        /\ \A p \in Pids : ~Alive(p)
        /\ client[c].out.kind = "view"
        /\ client[c].out.n = j
        /\ client[c].out.status = "done"
        /\ notifications[n].job_id = j
        /\ notifications[n].delivered = 0


\* the process submit_job launched for job j is gone
Exited(j) == procs[jobs[j].pid].owner # j

\* C21: for a job whose watcher died before its finalize step: no
\* notification is ever stored for it; its status leaves 'running' only in
\* the reconcile step of a read of that job or in a cancel of it; and a read
\* of it that probes after the job's process has exited stores 'done' with
\* exit_code and error NULL.
C21_WatcherLossDegrades ==
    [][\A j \in DOMAIN jobs :
          watcher[j].pc = "dead" =>
              /\ \A n \in DOMAIN notifications' : notifications'[n].job_id # j
              /\ (jobs[j].status = "running" /\ j \in DOMAIN jobs'
                    /\ jobs'[j].status # "running") =>
                    \E c \in Clients :
                        \/ /\ client[c].pc = "reconcile"
                           /\ Head(client[c].rows).id = j
                           /\ client'[c] # client[c]
                        \/ /\ client[c].pc = "cancel"
                           /\ client[c].job = j
                           /\ client'[c].pc = "idle"
              /\ \A c \in Clients :
                    (client[c].pc = "reconcile" /\ client'[c] # client[c]
                        /\ Head(client[c].rows).id = j
                        /\ jobs[j].status = "running" /\ Exited(j)) =>
                            /\ jobs'[j].status = "done"
                            /\ jobs'[j].exit_code = NoCode
                            /\ jobs'[j].error = <<>>]_vars


\* C22: a row that is 'running' with a NULL pid is never handed to the
\* liveness probe by any read or listing and is not removed; its status
\* changes only in a cancel_job of that job, which stores 'cancelled' and
\* sends no signal and ends no process.
C22_UnstartedOnlyCancelled ==
    [][\A j \in DOMAIN jobs :
          (jobs[j].status = "running" /\ jobs[j].pid = 0) =>
              /\ j \in DOMAIN jobs'
              /\ jobs'[j].pid = 0
              /\ \A c \in Clients :
                    client'[c].pc = "reconcile" => j \notin RowIds(client'[c].rows)
              /\ jobs'[j].status # "running" =>
                    /\ jobs'[j].status = "cancelled"
                    /\ jobs'[j].finished_at # "NULL"
                    /\ \E c \in Clients :
                          /\ client[c].pc = "cancel"
                          /\ client[c].job = j
                          /\ client'[c].pc = "idle"
                    /\ signals' = signals
                    /\ procs' = procs]_vars

\* C22 witness: the row without pid was shown as 'running' to a reader and
\* has then been cancelled; no signal was ever sent.
C22_Witness ==
    \E c, d \in Clients, j \in DOMAIN jobs :
        /\ jobs[j].pid = 0
        /\ jobs[j].status = "cancelled"
        /\ client[c].out.kind = "cancelled"
        /\ client[c].out.n = j
        /\ client[c].out.status = "gone"
        /\ client[d].out.kind = "view"
        /\ client[d].out.n = j
        /\ client[d].out.status = "running"
        /\ signals = {}


Written == {"running", "done", "cancelled"}

\* C23 as claimed: every stored status is 'running', 'done' or 'cancelled',
\* and the watcher stores a job whose error artifact is non-empty as 'done'
\* with exit_code 1.
C23_NeverFailed ==
    [][/\ \A j \in DOMAIN jobs' : jobs'[j].status \in Written
       /\ \A j \in AllIds :
            (Finalizes(j) /\ files[j].err[1] # <<>>) =>
                /\ jobs'[j].status = "done"
                /\ jobs'[j].exit_code = 1]_vars

\* C23 amended: every stored status is 'running', 'done' or 'cancelled', and
\* the watcher stores a job as 'done' with exit_code 1 when its error
\* artifact holds anything but white space, and as 'done' with exit_code 0
\* when it holds white space only or nothing.
C23_NeverFailedStripped ==
    [][/\ \A j \in DOMAIN jobs' : jobs'[j].status \in Written
       /\ \A j \in AllIds :
            Finalizes(j) =>
                /\ jobs'[j].status = "done"
                /\ jobs'[j].exit_code =
                      IF \E i \in 1..Len(files[j].err[1]) : ~IsSpace(files[j].err[1][i])
                      THEN 1 ELSE 0]_vars

\* C23 witness: a job that wrote text between white space to its error
\* stream is stored as 'done' with exit_code 1 and the text as excerpt.
C23_Witness ==
    \E j \in DOMAIN jobs :
        /\ files[j].err = << <<" ", "e", " ", "e", "\n">> >>
        /\ jobs[j].status = "done"
        /\ jobs[j].exit_code = 1
        /\ jobs[j].error = << <<"e", " ", "e">> >>

\* C24: the audit log only grows, by one record at a time and only in a
\* guard_job call; every guard_job call appends one record, whose result is
\* 'allowed' exactly when the call returned allow, whose command is the one
\* asked about, and which on a denial carries the reason returned.
C24_OneAuditRecordPerGuard ==
    [][/\ Len(audit') >= Len(audit)
       /\ Len(audit') <= Len(audit) + 1
       /\ SubSeq(audit', 1, Len(audit)) = audit
       /\ \A c \in Clients :
            (client[c].pc = "idle" /\ client'[c] # client[c]
                /\ client'[c].out.kind \in {"approved", "denied"}) =>
                    Len(audit') = Len(audit) + 1
       /\ Len(audit') = Len(audit) + 1 =>
            LET rec == audit'[Len(audit')] IN
            \E c \in Clients :
                /\ client[c].pc = "idle"
                /\ \A d \in Clients \ {c} : client'[d] = client[d]
                /\ client'[c].out.kind \in {"approved", "denied"}
                /\ rec.result = IF client'[c].out.kind = "approved"
                                THEN "allowed" ELSE "blocked"
                /\ client'[c].out.kind = "approved" =>
                      /\ client'[c].pc = "approved"
                      /\ rec.command = client'[c].cmd
                /\ client'[c].out.kind = "denied" =>
                      /\ client'[c].pc = "idle"
                      /\ rec.reason.kind \in {"command", "path", "quota"}
                      /\ rec.reason.kind = client'[c].out.status
                      /\ rec.reason.running = client'[c].out.n
                      /\ rec.reason.max = client'[c].out.m]_vars

\* C24 witness: the log holds the record of an allowed submission followed
\* by the record of one blocked for the quota.
C24_Witness ==
    /\ Len(audit) = 2
    /\ audit[1].result = "allowed"
    /\ audit[2].result = "blocked"
    /\ audit[2].reason.kind = "quota"
    /\ audit[2].reason.running >= audit[2].reason.max


\* C25: a status, result or cancel call that names an id without a row
\* reports 'not found' and changes nothing in the store, no process and no
\* file, and sends no signal; a call goes on to probe or to cancel only for
\* a row it has found.
C25_NotFoundChangesNothing ==
    [][\A c \in Clients :
          /\ (client[c].pc = "idle" /\ client'[c] # client[c]
                /\ client'[c].out.kind = "not_found") =>
                /\ ~HasRow(client'[c].out.n)
                /\ client'[c].pc = "idle"
                /\ jobs' = jobs /\ jobseq' = jobseq
                /\ notifications' = notifications /\ notifseq' = notifseq
                /\ signals' = signals /\ procs' = procs /\ files' = files
          /\ (client[c].pc = "idle" /\ client'[c].pc = "cancel") =>
                HasRow(client'[c].job)
          /\ (client[c].pc = "idle" /\ client'[c].pc = "reconcile") =>
                \A i \in 1..Len(client'[c].rows) : HasRow(client'[c].rows[i].id)
          /\ (client[c].pc = "idle" /\ client'[c] # client[c]
                /\ client'[c].out.kind \in {"view", "already"}) =>
                HasRow(client'[c].out.n)]_vars

\* C25 witness: a call has reported 'not found' for a job that clean_jobs
\* had removed, and one for an id that was never handed out.
C25_Witness ==
    \E c, d \in Clients :
        /\ client[c].out.kind = "not_found"
        /\ client[c].out.n <= jobseq
        /\ ~HasRow(client[c].out.n)
        /\ client[d].out.kind = "not_found"
        /\ client[d].out.n > jobseq


\* C26: every notification row names a job that has a row.
C26_NotificationsHaveJobs ==
    \A n \in DOMAIN notifications : HasRow(notifications[n].job_id)

\* the notifications a get_notifications call of client c has printed
Returned(c) ==
    IF client[c].pc = "notify" THEN SeqSet(client[c].ids)
    ELSE IF client[c].out.kind = "notified" THEN SeqSet(client[c].out.ids)
    ELSE {}

\* C27: no notification is in the output of two get_notifications calls.
C27_ReturnedToOneConsumer ==
    \A c, d \in Clients : c # d => Returned(c) \cap Returned(d) = {}

\* C29: every SIGTERM a cancel of job j sends reaches a process that
\* submit_job launched for job j (or a descendant in its group).
C29_SignalsOwnGroupOnly ==
    \A s \in signals : s.owner = s.by


\* C28: the commit of a get_notifications call sets delivered = 1 on rows
\* the call has returned and changes no other notification, so one inserted
\* after the call's select stays undelivered; every select returns all rows
\* that are undelivered then; and a flag is 1 only on a row some call has
\* returned.
C28_NoneLostByDelivery ==
    [][/\ \A c \in Clients :
            (client[c].pc = "notify" /\ client'[c].pc = "idle") =>
                /\ DOMAIN notifications' = DOMAIN notifications
                /\ \A n \in DOMAIN notifications \ SeqSet(client[c].ids) :
                      notifications'[n] = notifications[n]
       /\ \A c \in Clients :
            (client[c].pc = "idle" /\ client'[c] # client[c]
                /\ client'[c].out.kind = "no_pending") => PendingSet = {}
       /\ \A c \in Clients :
            (client[c].pc = "idle" /\ client'[c].pc = "notify") =>
                PendingSet \subseteq SeqSet(client'[c].ids)
       /\ \A n \in DOMAIN notifications' :
            (notifications'[n].delivered = 1
                /\ (n \in DOMAIN notifications => notifications[n].delivered = 0)) =>
                    \E c \in Clients :
                        client[c].pc = "notify" /\ n \in SeqSet(client[c].ids)]_vars

\* C28 witness: a consumer has returned and marked the first notification;
\* the second, which it had not read, is still undelivered and is now held
\* by the next call.
C28_Witness ==
    \E c, d \in Clients, n, m \in DOMAIN notifications :
        /\ c # d /\ n # m
        /\ client[c].out.kind = "notified"
        /\ client[c].out.ids = <<n>>
        /\ notifications[n].delivered = 1
        /\ notifications[m].delivered = 0
        /\ client[d].pc = "notify"
        /\ client[d].ids = <<m>>

\* C30: the artifacts of a job are named by its id alone, so the rows of
\* two jobs never name the same file; a job's files are created only by the
\* submission that takes that id and are unlinked only by a clean_jobs that
\* removes that job's row in the same step; every other job's files are as
\* they were.
C30_ArtifactsDisjoint ==
    [][/\ \A j \in DOMAIN jobs' : jobs'[j].output_file \in {0, j}
       /\ \A j, k \in DOMAIN jobs' :
            (j # k /\ jobs'[j].output_file # 0) =>
                jobs'[j].output_file # jobs'[k].output_file
       /\ \A j \in AllIds :
            files'[j] # files[j] =>
                \/ /\ files'[j] = NoFiles
                   /\ HasRow(j)
                   /\ j \notin DOMAIN jobs'
                   /\ \E c \in Clients :
                         /\ client[c].pc = "clean"
                         /\ client'[c].pc = "idle"
                         /\ j \in RowIds(client[c].rows)
                \/ /\ files'[j] # NoFiles
                   /\ \E c \in Clients :
                         \/ client'[c].pc = "spawn" /\ client'[c].job = j
                                /\ j \notin DOMAIN jobs
                         \/ client[c].pc = "spawn" /\ client[c].job = j
                                /\ client'[c].pc = "idle"
                         \/ client'[c].out.kind = "launch_failed"
                                /\ j = jobseq + 1]_vars

\* C30 witness: clean_jobs has removed job 1 with its files while job 2,
\* still running, has its two artifacts and its watcher script.
C30_Witness ==
    \E c \in Clients :
        /\ client[c].out.kind = "cleaned"
        /\ DOMAIN jobs = {2}
        /\ jobs[2].status = "running"
        /\ files[1] = NoFiles
        /\ files[2].out # <<>> /\ files[2].err # <<>> /\ files[2].script # 0

====
